---- MODULE Spec2Model ----
(***************************************************************************)
(* Frame synchronisation and presentation of the Vulkan tutorial program   *)
(* (src/src/20_rendering_and_presentation.rs): App::render, the event loop *)
(* of main that drives it, and the device queue and presentation engine    *)
(* that render talks to through fences and semaphores.                     *)
(*                                                                         *)
(* Vec<T> fields are sequences (index k of the code is k + 1 here).        *)
(* Vulkan handles are positive integers, the null handle is 0.             *)
(***************************************************************************)
EXTENDS Integers, Sequences, FiniteSets

\* ---------------------------------------------------------------- bounds
\* The swapchain has between 1 and MaxImages images.
MaxImages == 3
\* The event loop delivers at most MaxFrames RedrawRequested events.
MaxFrames == 3
\* The window system delivers at most MaxCloses CloseRequested events.
MaxCloses == 2
\* A surface reports a min_image_count between 1 and MaxMinImageCount.
MaxMinImageCount == 3
\* A surface reports at most MaxListLen formats and MaxListLen present modes.
MaxListLen == 2

\* ------------------------------------------------------------- constants
MAX_FRAMES_IN_FLIGHT == 2

\* vk::Fence::null()
NullFence == 0

\* VkResult values the three fallible calls of render can report.
\* The bindings turn the success codes into Ok and every other code into Err.
SuccessCodes == {"SUCCESS", "SUBOPTIMAL_KHR"}
ErrorCodes == {"ERROR_OUT_OF_DATE_KHR", "ERROR_DEVICE_LOST"}

\* variant: only VK_SUCCESS counts as Ok
IsSuccessCodeStrict(r) == r = "SUCCESS"
IsSuccessCode(r) == r \in SuccessCodes

\* main, line 1173: app.render(&window) is unwrapped, so an Err of render
\* panics in the event-loop closure and the process ends.
\* variant: the Err is dropped and the event loop goes on
UnwrapErrIgnored == "idle"
UnwrapErr == "panicked"

\* const VALIDATION_ENABLED: bool = cfg!(debug_assertions): the debug build,
\* which creates and destroys the debug messenger; the release build omits
\* both calls.
VALIDATION_ENABLED == TRUE

\* ------------------------------------------------- swapchain selection
\* u32::MAX, the width of the "undefined" current_extent. Unsigned integers
\* are 31 bits wide here (the widest the model checker computes with), so
\* the largest of them stands for 0xFFFFFFFF; every other width and height
\* is smaller, as in the program.
U32_MAX == 2147483647

\* vk::SurfaceFormatKHR as <<format, color_space>>
SurfaceFormats ==
    {<<"B8G8R8A8_SRGB", "SRGB_NONLINEAR">>,
     <<"B8G8R8A8_UNORM", "SRGB_NONLINEAR">>,
     <<"B8G8R8A8_SRGB", "EXTENDED_SRGB_LINEAR">>}
\* vk::PresentModeKHR
PresentModes == {"IMMEDIATE", "MAILBOX", "FIFO"}

\* Iterator::find: the first of the indices whose element satisfies the
\* test, 0 if there is none
Find(hits) ==
    IF hits = {} THEN 0 ELSE CHOOSE k \in hits : \A j \in hits : k <= j

\* variant: only the format is compared, the colour space is not
get_swapchain_surface_format_any_space(formats) ==
    LET k == Find({j \in 1..Len(formats) : formats[j][1] = "B8G8R8A8_SRGB"})
    IN  IF k # 0 THEN formats[k] ELSE formats[1]
\* formats.iter().cloned().find(B8G8R8A8_SRGB && SRGB_NONLINEAR)
\*     .unwrap_or_else(|| formats[0])
get_swapchain_surface_format(formats) ==
    LET k == Find({j \in 1..Len(formats) :
                      /\ formats[j][1] = "B8G8R8A8_SRGB"
                      /\ formats[j][2] = "SRGB_NONLINEAR"})
    IN  IF k # 0 THEN formats[k] ELSE formats[1]

\* variant: without MAILBOX the first supported mode is taken
get_swapchain_present_mode_first(present_modes) ==
    LET k == Find({j \in 1..Len(present_modes) : present_modes[j] = "MAILBOX"})
    IN  IF k # 0 THEN present_modes[k]
        ELSE IF present_modes # <<>> THEN present_modes[1] ELSE "FIFO"
\* present_modes.iter().cloned().find(|m| *m == MAILBOX).unwrap_or(FIFO)
get_swapchain_present_mode(present_modes) ==
    LET k == Find({j \in 1..Len(present_modes) : present_modes[j] = "MAILBOX"})
    IN  IF k # 0 THEN present_modes[k] ELSE "FIFO"

\* Ord::clamp
Clamp(v, lo, hi) == IF v < lo THEN lo ELSE IF v > hi THEN hi ELSE v

\* variant: the window size is used unclamped
get_swapchain_extent_unclamped(size, capabilities) ==
    IF capabilities.current_extent[1] # U32_MAX
        THEN capabilities.current_extent
        ELSE size
\* extents are <<width, height>>; only the width of current_extent is tested
get_swapchain_extent(size, capabilities) ==
    IF capabilities.current_extent[1] # U32_MAX
        THEN capabilities.current_extent
        ELSE <<Clamp(size[1], capabilities.min_image_extent[1],
                     capabilities.max_image_extent[1]),
               Clamp(size[2], capabilities.min_image_extent[2],
                     capabilities.max_image_extent[2])>>

\* variant: max_image_count = 0 is not treated as "no maximum"
ImageCountAlwaysCapped(capabilities) ==
    LET image_count == capabilities.min_image_count + 1
    IN  IF image_count > capabilities.max_image_count
            THEN capabilities.max_image_count
            ELSE image_count
\* create_swapchain, lines 670-679: min_image_count + 1, cut down to
\* max_image_count when that is not 0 (min_image_count is far below
\* u32::MAX, the addition does not overflow)
ImageCount(capabilities) ==
    LET image_count == capabilities.min_image_count + 1
    IN  IF capabilities.max_image_count # 0
           /\ image_count > capabilities.max_image_count
            THEN capabilities.max_image_count
            ELSE image_count

\* what create_swapchain puts into the SwapchainCreateInfoKHR
SwapchainCreateInfo(sup, size) ==
    [min_image_count |-> ImageCount(sup.capabilities),
     surface_format |-> get_swapchain_surface_format(sup.formats),
     present_mode |-> get_swapchain_present_mode(sup.present_modes),
     extent |-> get_swapchain_extent(size, sup.capabilities)]

\* --------------------------------------------------------------- state
VARIABLES
    frame,                       \* App.frame
    swapchain,                   \* AppData.swapchain (handle)
    swapchain_images,            \* AppData.swapchain_images (handles)
    swapchain_image_views,       \* AppData.swapchain_image_views: image each one views
    framebuffers,                \* AppData.framebuffers: image behind the attachment
    command_buffers,             \* AppData.command_buffers: image each one draws to
    image_available_semaphores,  \* AppData.image_available_semaphores (handles)
    render_finished_semaphores,  \* AppData.render_finished_semaphores (handles)
    in_flight_fences,            \* AppData.in_flight_fences (handles)
    images_in_flight,            \* AppData.images_in_flight (fence handle or null)
    fence,                       \* device: fence handle -> signaled?
    sem,                         \* device: semaphore handle -> state and what it announces
    queue,                       \* device: operations given to the queue, in order
    on_screen,                   \* presentation engine: the last present it executed,
                                 \* <<call, image, what its wait semaphore announced>>
    pc,                          \* where the event-loop thread is
    image_index,                 \* render's local image_index
    steps,                       \* <<call, VkResult>> of each Vulkan call made by the
                                 \* current (or, between calls, the last) render, and
                                 \* of the device_wait_idle calls made since
    frames,                      \* number of render calls that returned Ok
    exiting,                     \* elwt.exiting()
    destroyed,                   \* number of times App::destroy has run
    support,                     \* SwapchainSupport::get: capabilities, formats, present_modes
    window_size,                 \* window.inner_size() as <<width, height>>
    config,                      \* what create_swapchain chose: image_count, surface_format,
                                 \* present_mode, extent (AppData.swapchain_format / _extent)
    lifecycle,                   \* <<operation, object>> of every creation and destruction
    pe_ready,                    \* presentation engine: an image can be acquired now
    image_history                \* per image: was it ever acquired, and the fence of the
                                 \* slot that last submitted work against it (or null)

vars == <<frame, swapchain, swapchain_images, swapchain_image_views,
          framebuffers, command_buffers,
          image_available_semaphores, render_finished_semaphores,
          in_flight_fences, images_in_flight, fence, sem, queue, on_screen,
          pc, image_index, steps, frames, exiting,
          destroyed, support, window_size, config, lifecycle, pe_ready,
          image_history>>

\* what App::create builds once and render only reads, with the surface
\* properties it was built from
app_data == <<swapchain, swapchain_images, swapchain_image_views,
              framebuffers, command_buffers,
              image_available_semaphores, render_finished_semaphores,
              in_flight_fences, support, window_size, config>>

None == <<>>

\* ------------------------------------------------------ construction
\* create_sync_objects: MAX_FRAMES_IN_FLIGHT rounds, each creating the two
\* semaphores and the fence of one slot; handles are numbered in creation order.
SyncRounds == MAX_FRAMES_IN_FLIGHT
ImageAvailableCreated == [k \in 1..SyncRounds |-> 2 * k - 1]
RenderFinishedCreated == [k \in 1..SyncRounds |-> 2 * k]
FencesCreated == [k \in 1..SyncRounds |-> k]

\* the handle create_swapchain_khr returns in App::create
SwapchainCreated == 1

\* FenceCreateFlags::SIGNALED
\* variant: fences created without the flag
FenceCreateUnsignaled == FALSE
FenceCreateSignaled == TRUE

\* get_swapchain_images_khr: the handles of the n images the driver created
SwapchainImagesCreated(n) == [k \in 1..n |-> k]

\* create_swapchain_image_views: one view per image, in the order of the
\* images; a view is written as the handle of the image it views
SwapchainImageViewsCreated(images) == [k \in 1..Len(images) |-> images[k]]

\* create_framebuffers: one framebuffer per view, in the order of the views,
\* with that view as its only attachment; a framebuffer is written as the
\* handle of the image behind its attachment
FramebuffersCreated(views) == [k \in 1..Len(views) |-> views[k]]

\* create_command_buffers: framebuffers.len() command buffers, the one at
\* index i recorded against framebuffers[i]; a command buffer is written as
\* the index of the image it draws to (image handle h has index h - 1)
\* variant: the command buffers are recorded against the framebuffers in
\* reverse
CommandBuffersCreatedReversed(fbs) ==
    [k \in 1..Len(fbs) |-> fbs[Len(fbs) + 1 - k] - 1]
CommandBuffersCreated(fbs) == [k \in 1..Len(fbs) |-> fbs[k] - 1]

\* images_in_flight: one null entry per swapchain image
\* variant: the entries start as the fence of slot 0
ImagesInFlightCreatedSlot0(images) == [k \in 1..Len(images) |-> 1]
ImagesInFlightCreated(images) == [k \in 1..Len(images) |-> NullFence]

\* no image has been acquired and none has been drawn to
ImageHistoryCreated(images) ==
    [k \in 1..Len(images) |-> [acquired |-> FALSE, submitted |-> NullFence]]

\* The objects App::create creates, in the order of their creation calls:
\* create_instance (instance, then the messenger), create_surface,
\* create_logical_device, create_swapchain, create_swapchain_image_views,
\* create_render_pass, create_pipeline (layout, then pipeline),
\* create_framebuffers, create_command_pool, create_command_buffers,
\* create_sync_objects (per slot: image_available, render_finished, fence).
CreateOrder ==
    <<"instance">>
    \o (IF VALIDATION_ENABLED THEN <<"messenger">> ELSE <<>>)
    \o <<"surface", "device", "swapchain", "swapchain_image_views",
         "render_pass", "pipeline_layout", "pipeline", "framebuffers",
         "command_pool", "command_buffers", "image_available_semaphores",
         "render_finished_semaphores", "in_flight_fences">>

\* <<child, parent>>: the creation call of child is made on parent or names
\* parent in its create info
CreatedFrom ==
    {<<"messenger", "instance">>, <<"surface", "instance">>,
     <<"device", "instance">>,
     <<"swapchain", "device">>, <<"swapchain", "surface">>,
     <<"swapchain_image_views", "device">>,
     <<"swapchain_image_views", "swapchain">>,
     <<"render_pass", "device">>,
     <<"pipeline_layout", "device">>,
     <<"pipeline", "device">>, <<"pipeline", "pipeline_layout">>,
     <<"pipeline", "render_pass">>,
     <<"framebuffers", "device">>, <<"framebuffers", "render_pass">>,
     <<"framebuffers", "swapchain_image_views">>,
     <<"command_pool", "device">>,
     <<"command_buffers", "device">>, <<"command_buffers", "command_pool">>,
     <<"image_available_semaphores", "device">>,
     <<"render_finished_semaphores", "device">>,
     <<"in_flight_fences", "device">>}

\* the lifecycle entries of a sequence of objects
Log(op, objects) == [k \in 1..Len(objects) |-> <<op, objects[k]>>]

\* The properties of the surface and the window App::create may meet.
\* max_image_count is 0 (no maximum) or at least min_image_count; the
\* current extent is the undefined one (both U32_MAX) or a defined one.
ImageCounts ==
    {c \in (1..MaxMinImageCount) \X (0..(MaxMinImageCount + 1)) :
        c[2] = 0 \/ c[2] >= c[1]}
CurrentExtents == {<<U32_MAX, U32_MAX>>, <<800, 600>>}
ExtentRanges == {<<<<1, 1>>, <<4096, 4096>>>>}
WindowSizes == {<<1920, 1080>>, <<0, 0>>, <<5000, 600>>}
Lists(S) == UNION {[1..k -> S] : k \in 0..MaxListLen}

Capabilities ==
    {[min_image_count |-> c[1], max_image_count |-> c[2],
      current_extent |-> e, min_image_extent |-> r[1],
      max_image_extent |-> r[2]] :
        c \in ImageCounts, e \in CurrentExtents, r \in ExtentRanges}

\* SwapchainSupport::get: capabilities, formats (never empty), present_modes
Supports ==
    [capabilities : Capabilities,
     formats : Lists(SurfaceFormats) \ {<<>>},
     present_modes : Lists(PresentModes)]

\* the driver creates the number of images requested or some more
ExtraImages == {0, 1}

\* the surface of the running program, given that the driver created n
\* images: at most n images, of which one was not asked for when n > 2;
\* the wanted format, FIFO only, the extent fixed by the surface
SupportOf(n) ==
    [capabilities |->
        [min_image_count |-> IF n > 2 THEN n - 2 ELSE 1, max_image_count |-> n,
         current_extent |-> <<800, 600>>, min_image_extent |-> <<1, 1>>,
         max_image_extent |-> <<4096, 4096>>],
     formats |-> <<<<"B8G8R8A8_SRGB", "SRGB_NONLINEAR">>>>,
     present_modes |-> <<"FIFO">>]

\* what App::create returns for a surface, a window size and the number n
\* of images the driver created: the fields of App and AppData, and the
\* device's fences and semaphores
Created(sup, size, n) ==
    LET info == SwapchainCreateInfo(sup, size)
        images == SwapchainImagesCreated(n)
        views == SwapchainImageViewsCreated(images)
        fbs == FramebuffersCreated(views)
    IN  [frame |-> 0,
         config |-> info,
         swapchain |-> SwapchainCreated,
         swapchain_images |-> images,
         swapchain_image_views |-> views,
         framebuffers |-> fbs,
         command_buffers |-> CommandBuffersCreated(fbs),
         image_available_semaphores |-> ImageAvailableCreated,
         render_finished_semaphores |-> RenderFinishedCreated,
         in_flight_fences |-> FencesCreated,
         images_in_flight |-> ImagesInFlightCreated(images),
         fence |-> [h \in 1..SyncRounds |-> FenceCreateSignaled],
         sem |-> [h \in 1..(2 * SyncRounds) |->
                    [st |-> "unsignaled", for |-> None]],
         lifecycle |-> Log("create", CreateOrder),
         image_history |-> ImageHistoryCreated(images)]

\* The running program: App::create has returned, for a surface with
\* between 1 and MaxImages images, and the event loop has started.
Init ==
    /\ \E n \in 1..MaxImages : support = SupportOf(n)
    /\ window_size = <<800, 600>>
    /\ LET app == Created(support, window_size,
                          support.capabilities.max_image_count)
       IN  /\ frame = app.frame
           /\ config = app.config
           /\ swapchain = app.swapchain
           /\ swapchain_images = app.swapchain_images
           /\ swapchain_image_views = app.swapchain_image_views
           /\ framebuffers = app.framebuffers
           /\ command_buffers = app.command_buffers
           /\ image_available_semaphores = app.image_available_semaphores
           /\ render_finished_semaphores = app.render_finished_semaphores
           /\ in_flight_fences = app.in_flight_fences
           /\ images_in_flight = app.images_in_flight
           /\ fence = app.fence
           /\ sem = app.sem
           /\ lifecycle = app.lifecycle
           /\ image_history = app.image_history
    /\ pe_ready = TRUE
    /\ pc = "idle"
    /\ queue = <<>>
    /\ on_screen = None
    /\ image_index = 0
    /\ steps = <<>>
    /\ frames = 0
    /\ exiting = FALSE
    /\ destroyed = 0

\* The program before App::create, for every surface and window size.
InitCreate ==
    /\ support \in Supports
    /\ window_size \in WindowSizes
    /\ config = None
    /\ frame = 0
    /\ swapchain = 0
    /\ swapchain_images = <<>>
    /\ swapchain_image_views = <<>>
    /\ framebuffers = <<>>
    /\ command_buffers = <<>>
    /\ image_available_semaphores = <<>>
    /\ render_finished_semaphores = <<>>
    /\ in_flight_fences = <<>>
    /\ images_in_flight = <<>>
    /\ fence = <<>>
    /\ sem = <<>>
    /\ lifecycle = <<>>
    /\ image_history = <<>>
    /\ pe_ready = FALSE
    /\ pc = "create"
    /\ queue = <<>>
    /\ on_screen = None
    /\ image_index = 0
    /\ steps = <<>>
    /\ frames = 0
    /\ exiting = FALSE
    /\ destroyed = 0

\* App::create, lines 63-91: builds every object and returns the App with
\* frame 0; main then enters the event loop. The driver creates at least the
\* number of images create_swapchain asked for.
AppCreate ==
    /\ pc = "create"
    /\ \E extra \in ExtraImages :
       LET app == Created(support, window_size,
                          ImageCount(support.capabilities) + extra)
       IN  /\ frame' = app.frame
           /\ config' = app.config
           /\ swapchain' = app.swapchain
           /\ swapchain_images' = app.swapchain_images
           /\ swapchain_image_views' = app.swapchain_image_views
           /\ framebuffers' = app.framebuffers
           /\ command_buffers' = app.command_buffers
           /\ image_available_semaphores' = app.image_available_semaphores
           /\ render_finished_semaphores' = app.render_finished_semaphores
           /\ in_flight_fences' = app.in_flight_fences
           /\ images_in_flight' = app.images_in_flight
           /\ fence' = app.fence
           /\ sem' = app.sem
           /\ lifecycle' = app.lifecycle
           /\ image_history' = app.image_history
    /\ pe_ready' = TRUE
    /\ pc' = "idle"
    /\ UNCHANGED <<support, window_size, queue, on_screen, image_index,
                   steps, frames, exiting, destroyed>>

NextCreate == AppCreate

SpecCreate == InitCreate /\ [][NextCreate]_vars

\* ------------------------------------------------------------ helpers
RemoveAt(q, k) == [j \in 1..(Len(q) - 1) |-> IF j < k THEN q[j] ELSE q[j + 1]]

Submits == {k \in 1..Len(queue) : queue[k].kind = "submit"}
Presents == {k \in 1..Len(queue) : queue[k].kind = "present"}

\* ------------------------------------------------------------- render
\* variant: the match arm without its guard
RedrawRequestedUnguarded ==
    /\ pc = "idle"
    /\ frames < MaxFrames
    /\ pc' = "wait_slot"
    /\ UNCHANGED <<frame, app_data, images_in_flight, fence, sem, queue,
                   on_screen, image_index, steps, frames,
                   exiting, destroyed,
                   lifecycle, image_history, pe_ready>>

\* main: RedrawRequested if !elwt.exiting() => app.render(&window)
RedrawRequested ==
    /\ pc = "idle"
    /\ ~exiting
    /\ frames < MaxFrames
    /\ pc' = "wait_slot"
    /\ UNCHANGED <<frame, app_data, images_in_flight, fence, sem, queue,
                   on_screen, image_index, steps, frames,
                   exiting, destroyed,
                   lifecycle, image_history, pe_ready>>

\* wait_for_fences(&[in_flight_fences[frame]], true, u64::MAX) returns once
\* every fence of the list is signaled.
\* variants: a wait over all slot fences with wait_all = false; no wait at all
SlotWaitAny == \E k \in 1..Len(in_flight_fences) : fence[in_flight_fences[k]]
SlotWaitSkipped == TRUE
SlotWaitPasses == fence[in_flight_fences[frame + 1]]

\* variant: the fence of the slot is reset right after the wait
RenderWaitSlotResets ==
    /\ pc = "wait_slot"
    /\ SlotWaitPasses
    /\ steps' = <<<<"wait_for_fences", "SUCCESS">>>>
    /\ fence' = [fence EXCEPT ![in_flight_fences[frame + 1]] = FALSE]
    /\ pc' = "acquire"
    /\ UNCHANGED <<frame, app_data, images_in_flight, sem, queue,
                   on_screen, image_index, frames, exiting,
                   destroyed, lifecycle, image_history, pe_ready>>

\* render, lines 103-104: blocks on the fence of the current slot; the wait can
\* also fail (device lost), and `?` returns that error, which main unwraps.
RenderWaitSlot ==
    /\ pc = "wait_slot"
    /\ \/ /\ SlotWaitPasses
          /\ steps' = <<<<"wait_for_fences", "SUCCESS">>>>
          /\ pc' = "acquire"
       \/ /\ steps' = <<<<"wait_for_fences", "ERROR_DEVICE_LOST">>>>
          /\ pc' = UnwrapErr
    /\ UNCHANGED <<frame, app_data, images_in_flight, fence, sem, queue,
                   on_screen, image_index, frames, exiting,
                   destroyed,
                   lifecycle, image_history, pe_ready>>

\* the semaphore acquire_next_image_khr is told to signal (line 115)
AcquireSemaphore == image_available_semaphores[frame + 1]

\* the timeout argument u64::MAX (line 112) disables the timeout: the call
\* returns an image only once the presentation engine has one to hand out
\* variant: timeout 0, the call never waits
AcquireNeverWaits == TRUE
AcquireReturnsImage == pe_ready

\* render, lines 107-118: acquire_next_image_khr(swapchain, u64::MAX,
\* image_available_semaphores[frame], null)?.0. The driver may hand back any
\* image index, and then may or may not have a further image to hand out;
\* the semaphore is signaled later by the presentation engine.
RenderAcquire ==
    /\ pc = "acquire"
    /\ \E r \in SuccessCodes \cup ErrorCodes, i \in 0..(Len(swapchain_images) - 1) :
          /\ steps' = Append(steps, <<"acquire_next_image_khr", r>>)
          /\ IF IsSuccessCode(r)
                THEN /\ AcquireReturnsImage
                     /\ image_index' = i
                     /\ sem' = [sem EXCEPT ![AcquireSemaphore] =
                                   [st |-> "pending", for |-> <<frames, i>>]]
                     /\ pe_ready' \in BOOLEAN
                     /\ image_history' =
                            [image_history EXCEPT ![i + 1].acquired = TRUE]
                     /\ pc' = "image_wait"
                ELSE /\ pc' = UnwrapErr
                     /\ UNCHANGED <<image_index, sem, pe_ready, image_history>>
    /\ UNCHANGED <<frame, app_data, images_in_flight, fence, queue, on_screen,
                   frames, exiting, destroyed,
                   lifecycle>>

\* lines 120-126: the wait on the fence recorded for the acquired image
\* variant: the image fence is not waited for
ImageWaitSkipped == TRUE
ImageWaitPasses ==
    IF images_in_flight[image_index + 1] = NullFence
        THEN TRUE
        ELSE fence[images_in_flight[image_index + 1]]

\* render, lines 120-128: wait for the fence last recorded for the image, if
\* any, then record the fence of the current slot for it.
RenderWaitImage ==
    /\ pc = "image_wait"
    /\ \/ /\ ImageWaitPasses
          /\ images_in_flight' = [images_in_flight EXCEPT ![image_index + 1] =
                                     in_flight_fences[frame + 1]]
          /\ pc' = "submit"
          /\ steps' = IF images_in_flight[image_index + 1] = NullFence
                          THEN steps
                          ELSE Append(steps, <<"wait_for_fences", "SUCCESS">>)
       \/ /\ images_in_flight[image_index + 1] # NullFence
          /\ steps' = Append(steps, <<"wait_for_fences", "ERROR_DEVICE_LOST">>)
          /\ pc' = UnwrapErr
          /\ UNCHANGED images_in_flight
    /\ UNCHANGED <<frame, app_data, fence, sem, queue, on_screen, image_index,
                   frames, exiting, destroyed,
                   lifecycle, image_history, pe_ready>>

\* lines 131-137: the arguments of the submission
\* variant: always the semaphore of slot 0
WaitSemaphoresWrong == image_available_semaphores[1]
WaitSemaphores == image_available_semaphores[frame + 1]
WaitStages == "COLOR_ATTACHMENT_OUTPUT"
CommandBuffers == command_buffers[image_index + 1]
SignalSemaphores == render_finished_semaphores[frame + 1]

SubmitInfo ==
    [kind |-> "submit", call |-> frames, image |-> CommandBuffers,
     wait |-> WaitSemaphores, stage_mask |-> WaitStages,
     signal |-> SignalSemaphores, fence |-> in_flight_fences[frame + 1],
     stage |-> "queued", got |-> None]

\* variant: the submission is made without resetting the fence of the slot
RenderSubmitNoReset ==
    /\ pc = "submit"
    /\ steps' = Append(steps, <<"queue_submit", "SUCCESS">>)
    /\ queue' = Append(queue, SubmitInfo)
    /\ image_history' = [image_history EXCEPT ![image_index + 1].submitted =
                             in_flight_fences[frame + 1]]
    /\ pc' = "present"
    /\ UNCHANGED <<frame, app_data, images_in_flight, fence, sem, on_screen,
                   image_index, frames, exiting, destroyed,
                   lifecycle, pe_ready>>

\* render, lines 144-152: reset_fences(&[in_flight_fences[frame]])? and then
\* queue_submit(graphics_queue, &[submit_info], in_flight_fences[frame])?
RenderSubmit ==
    /\ pc = "submit"
    /\ \/ /\ steps' = Append(steps, <<"reset_fences", "ERROR_DEVICE_LOST">>)
          /\ pc' = UnwrapErr
          /\ UNCHANGED <<fence, queue, image_history>>
       \/ /\ fence' = [fence EXCEPT ![in_flight_fences[frame + 1]] = FALSE]
          /\ \/ /\ steps' = steps \o <<<<"reset_fences", "SUCCESS">>,
                                       <<"queue_submit", "ERROR_DEVICE_LOST">>>>
                /\ pc' = UnwrapErr
                /\ UNCHANGED <<queue, image_history>>
             \/ /\ steps' = steps \o <<<<"reset_fences", "SUCCESS">>,
                                       <<"queue_submit", "SUCCESS">>>>
                /\ queue' = Append(queue, SubmitInfo)
                /\ image_history' =
                       [image_history EXCEPT ![image_index + 1].submitted =
                           in_flight_fences[frame + 1]]
                /\ pc' = "present"
    /\ UNCHANGED <<frame, app_data, images_in_flight, sem, on_screen,
                   image_index, frames, exiting, destroyed,
                   lifecycle, pe_ready>>

\* lines 154-159: the arguments of the present
\* variant: the frame counter passed as image index
PresentImageIndicesWrong == frame
PresentImageIndices == image_index
PresentWaitSemaphores == SignalSemaphores

PresentInfo ==
    [kind |-> "present", call |-> frames, image |-> PresentImageIndices,
     wait |-> PresentWaitSemaphores, stage_mask |-> "NONE", signal |-> 0,
     fence |-> NullFence, stage |-> "queued", got |-> None]

\* line 164
\* variant: the increment is missing
NextFrameStuck(f) == f % MAX_FRAMES_IN_FLIGHT
NextFrame(f) == (f + 1) % MAX_FRAMES_IN_FLIGHT

\* render, lines 161-166: queue_present_khr(present_queue, &present_info)?,
\* then the frame counter advances and render returns Ok(()).
RenderPresent ==
    /\ pc = "present"
    /\ \E r \in SuccessCodes \cup ErrorCodes :
          /\ steps' = Append(steps, <<"queue_present_khr", r>>)
          /\ IF IsSuccessCode(r)
                THEN /\ queue' = Append(queue, PresentInfo)
                     /\ frame' = NextFrame(frame)
                     /\ frames' = frames + 1
                     /\ pc' = "idle"
                ELSE /\ pc' = UnwrapErr
                     /\ UNCHANGED <<queue, frame, frames>>
    /\ UNCHANGED <<app_data, images_in_flight, fence, sem, on_screen,
                   image_index, exiting, destroyed,
                   lifecycle, image_history, pe_ready>>

\* ------------------------------------------------- device and display
\* The submitted command buffer reaches the stage of its wait_dst_stage_mask:
\* it goes on only when its wait semaphore is signaled, and unsignals it.
GpuBeginColor(k) ==
    /\ k \in Submits
    /\ queue[k].stage = "queued"
    /\ sem[queue[k].wait].st = "signaled"
    /\ queue' = [queue EXCEPT ![k].stage = "color",
                              ![k].got = sem[queue[k].wait].for]
    /\ sem' = [sem EXCEPT ![queue[k].wait] = [st |-> "unsignaled", for |-> None]]
    /\ UNCHANGED <<frame, app_data, images_in_flight, fence, on_screen, pc,
                   image_index, steps, frames, exiting,
                   destroyed, lifecycle, image_history, pe_ready>>

\* The submission completes: its signal semaphore and its fence are signaled.
GpuComplete(k) ==
    /\ k \in Submits
    /\ queue[k].stage = "color"
    /\ sem' = [sem EXCEPT ![queue[k].signal] =
                  [st |-> "signaled", for |-> <<queue[k].call, queue[k].image>>]]
    /\ fence' = [fence EXCEPT ![queue[k].fence] = TRUE]
    /\ queue' = RemoveAt(queue, k)
    /\ UNCHANGED <<frame, app_data, images_in_flight, on_screen, pc,
                   image_index, steps, frames, exiting,
                   destroyed, lifecycle, image_history, pe_ready>>

\* The presentation engine executes the oldest present request once its wait
\* semaphore is signaled, and shows the image.
PresentExecute(k) ==
    /\ k \in Presents
    /\ \A j \in Presents : j >= k
    /\ sem[queue[k].wait].st = "signaled"
    /\ on_screen' = <<queue[k].call, queue[k].image, sem[queue[k].wait].for>>
    /\ sem' = [sem EXCEPT ![queue[k].wait] = [st |-> "unsignaled", for |-> None]]
    /\ queue' = RemoveAt(queue, k)
    /\ UNCHANGED <<frame, app_data, images_in_flight, fence, pc, image_index,
                   steps, frames, exiting, destroyed, lifecycle, image_history, pe_ready>>

\* The presentation engine signals the semaphore of an acquire once it no
\* longer needs the image: no earlier present of the image is still queued.
ImageAvailable(h) ==
    /\ sem[h].st = "pending"
    /\ \A j \in Presents :
          ~(queue[j].image = sem[h].for[2] /\ queue[j].call < sem[h].for[1])
    /\ sem' = [sem EXCEPT ![h].st = "signaled"]
    /\ UNCHANGED <<frame, app_data, images_in_flight, fence, queue, on_screen,
                   pc, image_index, steps, frames,
                   exiting, destroyed, lifecycle, image_history, pe_ready>>

\* The presentation engine is done with an image: the next acquire finds one.
ImageReleased ==
    /\ ~pe_ready
    /\ pe_ready' = TRUE
    /\ UNCHANGED <<frame, app_data, images_in_flight, fence, sem, queue,
                   on_screen, pc, image_index, steps, frames,
                   exiting, destroyed, lifecycle, image_history>>

\* --------------------------------------------------------- shutdown
\* main: CloseRequested => elwt.exit(), then device_wait_idle().unwrap()
CloseRequested ==
    /\ pc = "idle"
    /\ destroyed < MaxCloses
    /\ exiting' = TRUE
    /\ pc' = "wait_idle"
    /\ UNCHANGED <<frame, app_data, images_in_flight, fence, sem, queue,
                   on_screen, image_index, steps, frames,
                   destroyed,
                   lifecycle, image_history, pe_ready>>

\* device_wait_idle returns once the queue of the device holds no operation
\* that has not completed.
\* variant: destroy is called without waiting
DeviceIdleNotAwaited == TRUE
DeviceIdle == queue = <<>>

\* App::destroy, lines 171-225: the destroy calls in the order they are made
\* variant: destroy in the order of creation
DestroyOrderAsCreated ==
    SelectSeq(CreateOrder, LAMBDA o : o # "command_buffers")
DestroyOrder ==
    <<"render_finished_semaphores", "image_available_semaphores",
      "in_flight_fences", "command_pool", "framebuffers", "pipeline",
      "pipeline_layout", "render_pass">>
    \o (IF VALIDATION_ENABLED THEN <<"messenger">> ELSE <<>>)
    \o <<"swapchain_image_views", "swapchain", "device", "surface",
         "instance">>

\* App::destroy of 09_logical_device_and_queues.rs, lines 315-325
DestroyOrder09 ==
    (IF VALIDATION_ENABLED THEN <<"messenger">> ELSE <<>>)
    \o <<"instance", "device">>

\* App::destroy of 15_fixed_functions.rs, lines 84-108
DestroyOrder15 ==
    <<"pipeline_layout">>
    \o (IF VALIDATION_ENABLED THEN <<"messenger">> ELSE <<>>)
    \o <<"swapchain_image_views", "surface", "instance", "swapchain",
         "device">>

\* main, lines 1179 and 1182: app.device.device_wait_idle().unwrap(), then
\* app.destroy(); the handler then returns to the event loop. A failed wait
\* (device lost) panics in the unwrap and destroy is not called.
Destroy ==
    /\ pc = "wait_idle"
    /\ \/ /\ DeviceIdle
          /\ steps' = Append(steps, <<"device_wait_idle", "SUCCESS">>)
          /\ destroyed' = destroyed + 1
          /\ lifecycle' = lifecycle \o <<<<"device_wait_idle", "device">>>>
                                    \o Log("destroy", DestroyOrder)
          /\ pc' = "idle"
       \/ /\ steps' = Append(steps, <<"device_wait_idle", "ERROR_DEVICE_LOST">>)
          /\ pc' = UnwrapErr
          /\ UNCHANGED <<destroyed, lifecycle>>
    /\ UNCHANGED <<frame, app_data, images_in_flight, fence, sem, queue,
                   on_screen, image_index, frames, exiting, pe_ready,
                   image_history>>

\* event_loop.run returns once exit was requested and the handlers are done.
LoopExit ==
    /\ pc = "idle"
    /\ exiting
    /\ pc' = "exited"
    /\ UNCHANGED <<frame, app_data, images_in_flight, fence, sem, queue,
                   on_screen, image_index, steps, frames,
                   exiting, destroyed,
                   lifecycle, image_history, pe_ready>>

Next ==
    \/ RedrawRequested
    \/ RenderWaitSlot
    \/ RenderAcquire
    \/ RenderWaitImage
    \/ RenderSubmit
    \/ RenderPresent
    \/ \E k \in 1..Len(queue) : GpuBeginColor(k)
    \/ \E k \in 1..Len(queue) : GpuComplete(k)
    \/ \E k \in 1..Len(queue) : PresentExecute(k)
    \/ \E h \in DOMAIN sem : ImageAvailable(h)
    \/ ImageReleased
    \/ CloseRequested
    \/ Destroy
    \/ LoopExit

Spec == Init /\ [][Next]_vars

\* ------------------------------------------------------- properties
\* results reported by the calls named c in the current (or last) render
Results(c) == {steps[j][2] : j \in {j \in 1..Len(steps) : steps[j][1] = c}}
\* the slot (index into the per-frame vectors) render call number f runs on
SlotOf(f) == (f % MAX_FRAMES_IN_FLIGHT) + 1
\* render is between its entry and its return
Returned == pc \in {"idle", "wait_idle", "exited"}
Recreated == swapchain # SwapchainCreated

TypeOK ==
    /\ frame \in 0..(MAX_FRAMES_IN_FLIGHT - 1)
    /\ pc \in {"idle", "wait_slot", "acquire", "image_wait", "submit",
               "present", "panicked", "wait_idle", "exited", "create"}
    /\ image_index \in 0..(Len(swapchain_images) - 1)
    /\ frames \in 0..MaxFrames
    /\ \A h \in DOMAIN sem : sem[h].st \in {"unsignaled", "pending", "signaled"}
    /\ \A i \in DOMAIN images_in_flight :
          images_in_flight[i] \in {NullFence} \cup DOMAIN fence

\* C1: no two incomplete submissions target the same image, and when render
\* is about to submit for the acquired image, every earlier submission that
\* used that image's command buffer has completed (its fence was observed
\* signaled by the image-fence wait).
C1_ImageNeverSharedInFlight ==
    /\ \A j, k \in Submits : j # k => queue[j].image # queue[k].image
    /\ pc = "submit" => \A k \in Submits : queue[k].image # CommandBuffers

\* a second submission for an image is in flight while a present of the same
\* image by an earlier render call is still queued
C1_Witness ==
    \E k \in Submits, j \in Presents :
        /\ queue[j].image = queue[k].image
        /\ queue[j].call < queue[k].call

\* C2: between the slot-fence wait and the submission of a render call, the
\* call has observed the fence of the current slot signaled, the fence is
\* still signaled and no submission made with the fence or the semaphores of
\* this slot is incomplete; after the submission the only incomplete
\* submission with this slot is the one just made.
C2_SlotNotReusedInFlight ==
    /\ pc \in {"acquire", "image_wait", "submit"} =>
          /\ steps[1] = <<"wait_for_fences", "SUCCESS">>
          /\ fence[in_flight_fences[frame + 1]]
          /\ \A k \in Submits :
                /\ queue[k].fence # in_flight_fences[frame + 1]
                /\ queue[k].wait # image_available_semaphores[frame + 1]
                /\ queue[k].signal # render_finished_semaphores[frame + 1]
    /\ pc = "present" =>
          \A k \in Submits :
              queue[k].fence = in_flight_fences[frame + 1] => queue[k].call = frames

\* a slot is used for the second time
C2_Witness ==
    /\ pc = "submit"
    /\ frames >= MAX_FRAMES_IN_FLIGHT

\* C3: at most MAX_FRAMES_IN_FLIGHT fences are unsignaled and at most
\* MAX_FRAMES_IN_FLIGHT submissions are incomplete.
C3_AtMostMaxFramesInFlight ==
    /\ Cardinality({h \in DOMAIN fence : ~fence[h]}) <= MAX_FRAMES_IN_FLIGHT
    /\ Cardinality(Submits) <= MAX_FRAMES_IN_FLIGHT

\* MAX_FRAMES_IN_FLIGHT frames are in flight and a third render call waits
C3_Witness ==
    /\ Cardinality({h \in DOMAIN fence : ~fence[h]}) = MAX_FRAMES_IN_FLIGHT
    /\ Cardinality(Submits) = MAX_FRAMES_IN_FLIGHT
    /\ pc = "wait_slot"

\* C4: the frame counter lies in 0..MAX_FRAMES_IN_FLIGHT-1, equals the number
\* of successful render calls modulo MAX_FRAMES_IN_FLIGHT, and the f-th
\* successful call used the fence and semaphores of slot f mod
\* MAX_FRAMES_IN_FLIGHT.
C4_FrameCounter ==
    /\ frame \in 0..(MAX_FRAMES_IN_FLIGHT - 1)
    /\ frame = frames % MAX_FRAMES_IN_FLIGHT
    /\ \A k \in Submits :
          /\ queue[k].fence = in_flight_fences[SlotOf(queue[k].call)]
          /\ queue[k].wait = image_available_semaphores[SlotOf(queue[k].call)]
          /\ queue[k].signal = render_finished_semaphores[SlotOf(queue[k].call)]
    /\ \A k \in Presents :
          queue[k].wait = render_finished_semaphores[SlotOf(queue[k].call)]

\* the counter has wrapped around to 0
C4_Witness ==
    /\ frames = MAX_FRAMES_IN_FLIGHT
    /\ frame = 0
    /\ Presents # {}

\* C5: every submission waits at COLOR_ATTACHMENT_OUTPUT on the semaphore
\* the acquire of the same render call was told to signal for the image the
\* submission draws to, and it passes that stage only on that signal.
C5_SubmitWaitsForAcquire ==
    /\ pc \in {"image_wait", "submit"} =>
          /\ sem[WaitSemaphores].st \in {"pending", "signaled"}
          /\ sem[WaitSemaphores].for = <<frames, CommandBuffers>>
    /\ \A k \in Submits :
          /\ queue[k].stage_mask = "COLOR_ATTACHMENT_OUTPUT"
          /\ queue[k].stage = "queued" =>
                /\ sem[queue[k].wait].st \in {"pending", "signaled"}
                /\ sem[queue[k].wait].for = <<queue[k].call, queue[k].image>>
          /\ queue[k].stage = "color" =>
                queue[k].got = <<queue[k].call, queue[k].image>>

\* a submission of a reused slot has passed its semaphore wait
C5_Witness ==
    \E k \in Submits :
        /\ queue[k].stage = "color"
        /\ queue[k].call >= MAX_FRAMES_IN_FLIGHT

\* C6: a present names the image acquired in the same render call and waits
\* on the semaphore the submission of that call signals; the image on screen
\* is never one whose submission of that call is still incomplete.
C6_PresentAfterRender ==
    /\ \A k \in Presents :
          /\ \A j \in Submits :
                queue[j].call = queue[k].call =>
                    /\ queue[j].image = queue[k].image
                    /\ queue[j].signal = queue[k].wait
                    /\ j < k
          /\ (Returned \/ pc \in {"wait_slot", "acquire"}) /\ queue[k].call = frames - 1
                => queue[k].image = image_index
    /\ on_screen # None =>
          /\ \A j \in Submits : queue[j].call # on_screen[1]
          /\ on_screen[3] # None
          /\ (Returned \/ pc \in {"wait_slot", "acquire"}) /\ on_screen[1] = frames - 1
                => on_screen[2] = image_index

\* the presentation engine has shown the image of a frame other than the first
C6_Witness ==
    /\ on_screen # None
    /\ on_screen[1] >= 1
    /\ on_screen[2] >= 1

\* C7: when acquire reports out of date, the frame issues no submit and no
\* present, the swapchain is recreated and the engine goes on to the next
\* render call.
C7_OutOfDateAtAcquireRecreates ==
    "ERROR_OUT_OF_DATE_KHR" \in Results("acquire_next_image_khr") =>
        /\ Results("queue_submit") = {}
        /\ Results("queue_present_khr") = {}
        /\ Recreated
        /\ pc # "panicked"

\* C8: an out-of-date swapchain, at acquire or at present, never terminates
\* the engine.
C8_OutOfDateNeverTerminates ==
    pc = "panicked" =>
        \A j \in 1..Len(steps) : steps[j][2] # "ERROR_OUT_OF_DATE_KHR"

\* C9: a suboptimal acquire or present triggers no recreation and does not
\* end the frame: render fails only on an error code reported by a later
\* call, and a render call that presented (suboptimal or not) after a
\* suboptimal acquire or with a suboptimal present has submitted, queued its
\* present and advanced the frame counter.
C9_SuboptimalProceeds ==
    /\ ~Recreated
    /\ pc = "panicked" => steps[Len(steps)][2] \in ErrorCodes
    /\ ( /\ Returned \/ pc = "wait_slot"
         /\ "SUBOPTIMAL_KHR" \in
               Results("acquire_next_image_khr") \cup Results("queue_present_khr") ) =>
          /\ Results("queue_submit") = {"SUCCESS"}
          /\ Results("queue_present_khr") \subseteq SuccessCodes
          /\ Results("queue_present_khr") # {}
          /\ frames >= 1
          /\ frame = frames % MAX_FRAMES_IN_FLIGHT
          /\ \/ \E k \in Presents : queue[k].call = frames - 1
             \/ (on_screen # None /\ on_screen[1] = frames - 1)

\* a frame with a suboptimal present has completed
C9_Witness ==
    /\ Returned
    /\ "SUBOPTIMAL_KHR" \in Results("queue_present_khr")
    /\ "SUBOPTIMAL_KHR" \in Results("acquire_next_image_khr")
    /\ frames >= 1

\* C10: when present reported out of date or suboptimal, the swapchain has
\* been recreated by the time the next render call is entered (before it
\* acquires), and the engine has not stopped instead.
C10_PresentTriggersRecreation ==
    ( /\ pc \in {"wait_slot", "panicked"}
      /\ Results("queue_present_khr") \cap {"ERROR_OUT_OF_DATE_KHR", "SUBOPTIMAL_KHR"} # {} )
        => (Recreated /\ pc = "wait_slot")

\* C11: an error reported by any call of render is the last call render
\* makes (the error is returned at once), and after it the program issues no
\* further acquire, submit or present: the trace of calls, the frame counter,
\* images_in_flight and the set of queued operations never grow again.
C11_FatalErrorIsTerminal ==
    /\ [](\A j \in 1..Len(steps) :
            steps[j][2] \in ErrorCodes => (j = Len(steps) /\ pc = "panicked"))
    /\ [][pc = "panicked" =>
            /\ pc' = "panicked"
            /\ steps' = steps
            /\ frame' = frame /\ frames' = frames
            /\ images_in_flight' = images_in_flight
            /\ Len(queue') <= Len(queue)]_vars

\* queue_submit failed while an earlier frame was still in flight
C11_Witness ==
    /\ pc = "panicked"
    /\ steps[Len(steps)] = <<"queue_submit", "ERROR_DEVICE_LOST">>
    /\ Submits # {}

\* ------------------------------------------------- object lifetimes
\* a is a subsequence of b
RECURSIVE Embeds(_, _)
Embeds(a, b) ==
    IF a = <<>> THEN TRUE
    ELSE IF b = <<>> THEN FALSE
    ELSE IF Head(a) = Head(b) THEN Embeds(Tail(a), Tail(b))
    ELSE Embeds(a, Tail(b))

\* a call of the current (or last) render reported an out-of-date swapchain
OutOfDateSeen ==
    \E j \in 1..Len(steps) : steps[j][2] = "ERROR_OUT_OF_DATE_KHR"

\* the events of a swapchain recreation as the specification orders them
RecreationLog ==
    <<<<"device_wait_idle", "device">>>>
    \o Log("destroy", <<"framebuffers", "pipeline", "render_pass",
                        "swapchain_image_views", "swapchain">>)
    \o Log("create", <<"swapchain", "swapchain_image_views", "render_pass",
                       "pipeline", "framebuffers", "command_buffers">>)

\* C12: once a call of render has reported an out-of-date swapchain, the
\* swapchain is recreated: the device was waited for, framebuffers, pipeline,
\* render pass, image views and swapchain were destroyed in that order, then
\* swapchain, image views, render pass, pipeline, framebuffers and command
\* buffers were created in that order, and the handle in use is a new one.
C12_RecreationOrder ==
    OutOfDateSeen =>
        /\ Embeds(RecreationLog, lifecycle)
        /\ Recreated

\* index in lifecycle of the creation of object o
CreatedAt(o) == CHOOSE k \in 1..Len(lifecycle) : lifecycle[k] = <<"create", o>>
\* indices in lifecycle of the destructions of object o
DestroyedAt(o) == {k \in 1..Len(lifecycle) : lifecycle[k] = <<"destroy", o>>}
\* index of the destruction of o by the r-th run of destroy
DestroyedIn(r, o) ==
    CHOOSE k \in DestroyedAt(o) : Cardinality({j \in DestroyedAt(o) : j <= k}) = r

\* C13: whenever resources are destroyed, the step that destroys them is
\* taken by the CloseRequested handler after exit was requested, it starts
\* with device_wait_idle, and no submission and no present is in the queue
\* of the device before or after it.
C13_IdleBeforeDestroy ==
    [][lifecycle' # lifecycle =>
          /\ pc = "wait_idle" /\ exiting
          /\ queue = <<>> /\ queue' = <<>>
          /\ lifecycle'[Len(lifecycle) + 1] = <<"device_wait_idle", "device">>
          /\ \A k \in (Len(lifecycle) + 2)..Len(lifecycle') :
                lifecycle'[k][1] = "destroy"
          /\ destroyed' = destroyed + 1]_vars

\* destroy has run after the last frame rendered was shown
C13_Witness ==
    /\ destroyed = 1
    /\ frames >= MAX_FRAMES_IN_FLIGHT
    /\ on_screen # None
    /\ on_screen[1] = frames - 1
    /\ lifecycle[Len(lifecycle)] = <<"destroy", "instance">>

\* the groups of resources in the order the specification has them released
ReleaseGroups ==
    <<{"image_available_semaphores", "render_finished_semaphores",
       "in_flight_fences"},
      {"command_pool"}, {"framebuffers"}, {"pipeline", "pipeline_layout"},
      {"render_pass"}, {"swapchain_image_views"}, {"swapchain"}, {"surface"}>>

\* C14: every run of destroy releases each group of resources once, in the
\* order semaphores and fences, command pool, framebuffers, pipeline and
\* layout, render pass, image views, swapchain, surface; that order is the
\* reverse of the order in which the groups were created; and every object
\* is destroyed before each object it was created from.
C14_DestroyReversesCreation ==
    \A r \in 1..destroyed :
        \* the indices in lifecycle, looked up once for each object
        LET Objects == {CreateOrder[k] : k \in 1..Len(CreateOrder)}
            counts == {<<o, Cardinality(DestroyedAt(o))>> : o \in Objects}
            count(o) == (CHOOSE p \in counts : p[1] = o)[2]
            ats == {<<o, DestroyedIn(r, o)>> :
                       o \in {o \in Objects : count(o) >= r}}
            at(o) == (CHOOSE p \in ats : p[1] = o)[2]
            mades == {<<o, CreatedAt(o)>> : o \in Objects}
            made(o) == (CHOOSE p \in mades : p[1] = o)[2]
        IN
        /\ \A g \in 1..Len(ReleaseGroups) : \A x \in ReleaseGroups[g] :
              count(x) = destroyed
        /\ \A g, h \in 1..Len(ReleaseGroups) :
              \A x \in ReleaseGroups[g], y \in ReleaseGroups[h] :
                  g < h =>
                      /\ at(x) < at(y)
                      /\ made(y) < made(x)
        /\ \A e \in CreatedFrom :
              count(e[1]) # 0 =>
                  /\ count(e[2]) = destroyed
                  /\ at(e[1]) < at(e[2])

\* destroy has run, after frames were rendered
C14_Witness ==
    /\ destroyed >= 1
    /\ frames >= 1
    /\ DestroyedAt("swapchain") # {}
    /\ DestroyedAt("instance") # {}

\* ------------------------------------------- swapchain configuration
\* App::create has returned
AppCreated == pc # "create"

\* C15: create_swapchain requests min_image_count + 1 images when
\* max_image_count is 0 or min_image_count + 1 <= max_image_count, and
\* max_image_count otherwise; min 2 and max 3 give 3.
C15_ImageCount ==
    AppCreated =>
        LET c == support.capabilities
            Fits == c.max_image_count = 0
                    \/ c.min_image_count + 1 <= c.max_image_count
        IN  /\ Fits => config.min_image_count = c.min_image_count + 1
            /\ ~Fits => config.min_image_count = c.max_image_count
            /\ (c.min_image_count = 2 /\ c.max_image_count = 3) =>
                  config.min_image_count = 3

\* a swapchain was created for a surface whose maximum cuts the count down
C15_Witness ==
    /\ AppCreated
    /\ support.capabilities.max_image_count # 0
    /\ support.capabilities.min_image_count + 1
          > support.capabilities.max_image_count
    /\ swapchain = SwapchainCreated
    /\ Len(swapchain_images) = support.capabilities.max_image_count

WantedFormat == <<"B8G8R8A8_SRGB", "SRGB_NONLINEAR">>

\* C16: the surface format chosen is (B8G8R8A8_SRGB, SRGB_NONLINEAR) when
\* that pair is at any position of the list of supported formats, and the
\* first entry of the list when it is at none.
C16_SurfaceFormat ==
    AppCreated =>
        LET formats == support.formats
        IN  IF \E k \in 1..Len(formats) : formats[k] = WantedFormat
                THEN config.surface_format = WantedFormat
                ELSE config.surface_format = formats[1]

\* the wanted pair was chosen from the second place of the list
C16_Witness ==
    /\ AppCreated
    /\ Len(support.formats) = 2
    /\ support.formats[1] # WantedFormat
    /\ support.formats[2] = WantedFormat
    /\ config.surface_format = WantedFormat

\* C17: the present mode chosen is MAILBOX when MAILBOX is in the list of
\* supported present modes and FIFO when it is not.
C17_PresentMode ==
    AppCreated =>
        LET modes == support.present_modes
        IN  IF \E k \in 1..Len(modes) : modes[k] = "MAILBOX"
                THEN config.present_mode = "MAILBOX"
                ELSE config.present_mode = "FIFO"

\* FIFO was chosen although the list does not name it
C17_Witness ==
    /\ AppCreated
    /\ support.present_modes = <<"IMMEDIATE">>
    /\ config.present_mode = "FIFO"

UndefinedExtent == <<U32_MAX, U32_MAX>>

\* C18: the extent chosen is the current extent of the surface when that is
\* defined; when it is the undefined one, each of width and height is the
\* window's, moved into the range from min_image_extent to max_image_extent:
\* unchanged when inside it, the nearer end when outside. A window of
\* (1920, 1080) with the range (1, 1) to (4096, 4096) gives (1920, 1080).
C18_Extent ==
    AppCreated =>
        LET c == support.capabilities
        IN  /\ c.current_extent # UndefinedExtent =>
                  config.extent = c.current_extent
            /\ c.current_extent = UndefinedExtent =>
                  /\ Len(config.extent) = 2
                  /\ \A d \in 1..2 :
                        LET lo == c.min_image_extent[d]
                            hi == c.max_image_extent[d]
                            w == window_size[d]
                        IN  /\ config.extent[d] \in lo..hi
                            /\ w \in lo..hi => config.extent[d] = w
                            /\ w < lo => config.extent[d] = lo
                            /\ w > hi => config.extent[d] = hi
            /\ ( /\ c.current_extent = UndefinedExtent
                 /\ window_size = <<1920, 1080>>
                 /\ c.min_image_extent = <<1, 1>>
                 /\ c.max_image_extent = <<4096, 4096>> ) =>
                  config.extent = <<1920, 1080>>

\* the window was wider than the surface allows and its width was cut down
C18_Witness ==
    /\ AppCreated
    /\ support.capabilities.current_extent = UndefinedExtent
    /\ window_size[1] > support.capabilities.max_image_extent[1]
    /\ config.extent[1] = support.capabilities.max_image_extent[1]
    /\ config.extent[2] = window_size[2]

\* ------------------------------------------------ first use and blocking
\* C19: there are exactly MAX_FRAMES_IN_FLIGHT image_available semaphores,
\* render_finished semaphores and in_flight fences, all distinct, and one
\* images_in_flight entry per swapchain image; until the first submission
\* every fence is signaled and every entry is null; each of the first
\* MAX_FRAMES_IN_FLIGHT render calls finds the fence of its slot signaled,
\* whether or not any submission has completed; an entry that is not null
\* stays so, and the step that makes a null entry non-null is the image-fence
\* step of the first render call that acquired the image, which makes no
\* wait_for_fences call.
C19_SyncObjectsCreated ==
    /\ [] /\ Len(image_available_semaphores) = MAX_FRAMES_IN_FLIGHT
          /\ Len(render_finished_semaphores) = MAX_FRAMES_IN_FLIGHT
          /\ Len(in_flight_fences) = MAX_FRAMES_IN_FLIGHT
          /\ Cardinality({image_available_semaphores[k] : k \in 1..MAX_FRAMES_IN_FLIGHT}
                   \cup {render_finished_semaphores[k] : k \in 1..MAX_FRAMES_IN_FLIGHT})
                = 2 * MAX_FRAMES_IN_FLIGHT
          /\ Cardinality({in_flight_fences[k] : k \in 1..MAX_FRAMES_IN_FLIGHT})
                = MAX_FRAMES_IN_FLIGHT
          /\ Len(images_in_flight) = Len(swapchain_images)
          /\ (frames = 0 /\ pc \in {"idle", "wait_slot", "acquire", "image_wait"}) =>
                /\ \A k \in 1..MAX_FRAMES_IN_FLIGHT : fence[in_flight_fences[k]]
                /\ \A i \in 1..Len(images_in_flight) :
                      images_in_flight[i] = NullFence
          /\ (frames < MAX_FRAMES_IN_FLIGHT /\ pc = "wait_slot") =>
                fence[in_flight_fences[frame + 1]]
    /\ [][\A i \in 1..Len(images_in_flight) :
            /\ images_in_flight[i] # NullFence => images_in_flight'[i] # NullFence
            /\ (images_in_flight[i] = NullFence /\ images_in_flight'[i] # NullFence) =>
                  /\ pc = "image_wait" /\ pc' = "submit"
                  /\ i = image_index + 1
                  /\ images_in_flight'[i] = in_flight_fences[frame + 1]
                  /\ steps' = steps]_vars

\* the second render call has passed the fence wait of its slot, used for
\* the first time, while the submission of the first call has not started
C19_Witness ==
    /\ frames = 1
    /\ pc = "acquire"
    /\ \E k \in Submits : queue[k].call = 0 /\ queue[k].stage = "queued"
    /\ on_screen = None

\* render is between its entry and its return
InRender == pc \in {"wait_slot", "acquire", "image_wait", "submit", "present"}

\* the call render is at returns with a success code
RenderProceeds ==
    \/ RenderWaitSlot /\ pc' = "acquire"
    \/ RenderAcquire /\ pc' = "image_wait"
    \/ RenderWaitImage /\ pc' = "submit"
    \/ RenderSubmit /\ pc' = "present"
    \/ RenderPresent /\ pc' = "idle"

\* the thread is inside a call of render that cannot return successfully
\* until the device or the presentation engine has taken a step
Blocked == InRender /\ ~ENABLED RenderProceeds

\* C20 as stated: render blocks only at the wait on the fence of the slot and
\* at the wait on the fence recorded for the acquired image.
C20_OnlyTwoBlockingPoints ==
    Blocked => pc \in {"wait_slot", "image_wait"}

\* C20, amended: render blocks at three points and nowhere else: at the wait
\* on the fence of the slot exactly while that fence is unsignaled, at the
\* image acquire exactly while the presentation engine has no image to hand
\* out, and at the wait on the fence recorded for the acquired image exactly
\* while there is one and it is unsignaled.
C20_BlockingPoints ==
    /\ Blocked => pc \in {"wait_slot", "acquire", "image_wait"}
    /\ pc = "wait_slot" => (Blocked <=> ~fence[in_flight_fences[frame + 1]])
    /\ pc = "acquire" => (Blocked <=> ~pe_ready)
    /\ pc = "image_wait" =>
          (Blocked <=>
              IF images_in_flight[image_index + 1] = NullFence
                  THEN FALSE
                  ELSE ~fence[images_in_flight[image_index + 1]])

\* a render call that found the fence of its slot signaled is held in the
\* image acquire
C20_Witness ==
    /\ pc = "acquire"
    /\ Blocked
    /\ fence[in_flight_fences[frame + 1]]
    /\ frames >= 1

\* ------------------------------------------------- the steps of render
\* the names of the calls in steps
Calls == [j \in 1..Len(steps) |-> steps[j][1]]

\* the Vulkan calls of a render call that returns Ok, in order; waited says
\* whether a fence was recorded for the acquired image
RenderCalls(waited) ==
    <<"wait_for_fences", "acquire_next_image_khr">>
    \o (IF waited THEN <<"wait_for_fences">> ELSE <<>>)
    \o <<"reset_fences", "queue_submit", "queue_present_khr">>

\* C21: a render call that returns Ok has made exactly the calls wait on the
\* slot fence, acquire, wait on the image's fence (if and only if one was
\* recorded), reset, submit, present, in this order, each once and each
\* successful; the step after the acquire records the slot fence for the
\* image; the submit step leaves the slot fence unsignaled and queues one
\* submission, of the command buffer of the acquired image and with the
\* slot's fence; the return queues one present and advances frame by one.
C21_RenderStepsInOrder ==
    /\ [](\A j, k \in Submits \cup Presents :
            (j # k /\ queue[j].kind = queue[k].kind) => queue[j].call # queue[k].call)
    /\ [][frames' # frames =>
            /\ frames' = frames + 1
            /\ frame' = (frame + 1) % MAX_FRAMES_IN_FLIGHT
            /\ Calls' \in {RenderCalls(TRUE), RenderCalls(FALSE)}
            /\ \A j \in 1..Len(steps') : steps'[j][2] \in SuccessCodes
            /\ images_in_flight[image_index + 1] = in_flight_fences[frame + 1]
            /\ Len(queue') = Len(queue) + 1
            /\ queue'[Len(queue')].kind = "present"
            /\ queue'[Len(queue')].call = frames
            /\ queue'[Len(queue')].image = image_index]_vars
    /\ [][(pc = "image_wait" /\ pc' = "submit") =>
            /\ Calls = <<"wait_for_fences", "acquire_next_image_khr">>
            /\ Len(steps') = (IF images_in_flight[image_index + 1] = NullFence
                                THEN 2 ELSE 3)
            /\ images_in_flight'[image_index + 1] = in_flight_fences[frame + 1]]_vars
    /\ [][(pc = "submit" /\ pc' = "present") =>
            /\ Len(Calls') = Len(Calls) + 2
            /\ SubSeq(Calls', Len(Calls) + 1, Len(Calls) + 2)
                  = <<"reset_fences", "queue_submit">>
            /\ ~fence'[in_flight_fences[frame + 1]]
            /\ Len(queue') = Len(queue) + 1
            /\ queue'[Len(queue')].kind = "submit"
            /\ queue'[Len(queue')].call = frames
            /\ queue'[Len(queue')].image = image_index
            /\ queue'[Len(queue')].fence = in_flight_fences[frame + 1]]_vars

\* a render call that waited for the fence recorded for its image has returned
C21_Witness ==
    /\ pc = "idle"
    /\ frames >= 2
    /\ Calls = RenderCalls(TRUE)

\* ------------------------------------------------- images_in_flight
\* the slot fences
SlotFences == {in_flight_fences[k] : k \in 1..Len(in_flight_fences)}

\* C22 as stated: each entry of images_in_flight is null or a slot fence; it
\* is null exactly while its image has never been acquired, and otherwise
\* it is the fence of the slot that last submitted work against the image.
C22_EntryIsLastSubmitter ==
    \A i \in 1..Len(images_in_flight) :
        /\ images_in_flight[i] \in {NullFence} \cup SlotFences
        /\ images_in_flight[i] = NullFence <=> ~image_history[i].acquired
        /\ images_in_flight[i] # NullFence =>
              images_in_flight[i] = image_history[i].submitted

\* the render call in progress has acquired image i and not yet recorded
\* the fence of its slot for it
Recording(i) == pc = "image_wait" /\ image_index + 1 = i

\* the render call in progress (or the one that failed) has recorded the
\* fence of its slot for image i and has not submitted
RecordedNotSubmitted(i) ==
    /\ image_index + 1 = i
    /\ images_in_flight[i] = in_flight_fences[frame + 1]
    /\ \/ pc = "submit"
       \/ /\ pc = "panicked"
          /\ steps[Len(steps)][1] \in {"reset_fences", "queue_submit"}

\* C22, amended: each entry is null or a slot fence; an entry is null exactly
\* while its image was never acquired or the render call that acquired it
\* first has not yet reached the step that records the fence; an entry that
\* is not null is the fence of the slot that last submitted work against the
\* image, except that from the recording step of a render call until its
\* submission, and for good when its reset_fences or queue_submit fails, it
\* is the fence of that call's slot.
C22_EntryIsLastRecorder ==
    \A i \in 1..Len(images_in_flight) :
        /\ images_in_flight[i] \in {NullFence} \cup SlotFences
        /\ ~image_history[i].acquired => images_in_flight[i] = NullFence
        /\ images_in_flight[i] = NullFence =>
              (~image_history[i].acquired \/ Recording(i))
        /\ images_in_flight[i] # NullFence =>
              \/ images_in_flight[i] = image_history[i].submitted
              \/ RecordedNotSubmitted(i)
        /\ (Recording(i) /\ image_history[i].submitted # NullFence) =>
              images_in_flight[i] = image_history[i].submitted

\* the second slot was the last to submit against an image, while another
\* image was never acquired
C22_Witness ==
    /\ pc = "idle"
    /\ frames >= 2
    /\ \E i, j \in 1..Len(images_in_flight) :
          /\ ~image_history[i].acquired
          /\ images_in_flight[i] = NullFence
          /\ images_in_flight[j] = in_flight_fences[2]
          /\ image_history[j].submitted = in_flight_fences[2]
          /\ image_index + 1 = j

\* ------------------------------------------------------ fence reset
\* the submissions in the queue that signal fence h on completion
SubmitsSignaling(h) == {k \in Submits : queue[k].fence = h}

SubmitFailed ==
    /\ pc = "panicked"
    /\ steps[Len(steps)] = <<"queue_submit", "ERROR_DEVICE_LOST">>

C24_RenderFinishedNotReused ==
    /\ \A k \in Submits, j \in Presents :
          queue[j].wait = queue[k].signal => queue[j].call >= queue[k].call
    /\ pc = "submit" =>
          \A j \in Presents : queue[j].wait # SignalSemaphores

\* ------------------------------------------------------ termination
\* The thread of the event loop is scheduled: a call of render that can
\* return successfully, and stays able to, does return.
\* Termination of render is a property of the render calls and of the device
\* and presentation engine they wait for; close requests, which main handles
\* only between two calls, are left out.
NextLive ==
    \/ RedrawRequested
    \/ RenderWaitSlot
    \/ RenderAcquire
    \/ RenderWaitImage
    \/ RenderSubmit
    \/ RenderPresent
    \/ \E k \in 1..Len(queue) : GpuBeginColor(k)
    \/ \E k \in 1..Len(queue) : GpuComplete(k)
    \/ \E k \in 1..Len(queue) : PresentExecute(k)
    \/ \E h \in DOMAIN sem : ImageAvailable(h)
    \/ ImageReleased

SpecLive == Init /\ [][NextLive]_vars /\ WF_vars(RenderProceeds)

\* render call number c has a submission in the queue of the device
Pending(c) == \E k \in Submits : queue[k].call = c

\* every submitted command buffer eventually completes (and signals its
\* fence): the submission of no call stays in the queue for ever
SubmissionsComplete ==
    \A c \in 0..(MaxFrames - 1) : []<>(~Pending(c))

\* every acquire eventually returns: the call is not at the acquire for ever
AcquireReturns == []<>(pc # "acquire")

\* no call of render fails
NoError == [](pc # UnwrapErr)

\* C25: if every submission eventually completes, every acquire eventually
\* returns and no call fails, then for any number of images and any order of
\* image indices neither the wait on the slot fence nor the wait on the image
\* fence lasts for ever, and every render call that has started returns (a
\* return without error is the one after the frame counter has advanced).
C25_RenderTerminates ==
    (SubmissionsComplete /\ AcquireReturns /\ NoError) =>
        /\ []<>(pc # "wait_slot")
        /\ []<>(pc # "image_wait")
        /\ []<>(~InRender)

\* with fewer images than frames in flight, a render call waits for the fence
\* of its image while the submission that will signal it has not completed
C25_Witness ==
    /\ pc = "image_wait"
    /\ ~ImageWaitPasses
    /\ Cardinality(SubmitsSignaling(images_in_flight[image_index + 1])) = 1
    /\ Len(swapchain_images) < MAX_FRAMES_IN_FLIGHT

\* ------------------------------------------- failure before the submit
\* the Vulkan call made by the step just taken, and whether it failed
LastStep == steps[Len(steps)]
Failed(step) == step[2] \in ErrorCodes

\* C26: a step of render at the slot-fence wait or at the acquire whose call
\* fails makes render return the error and leaves the frame counter,
\* images_in_flight and every fence as they were; an images_in_flight entry
\* is overwritten, and a fence is reset, only by a step of a call that is past
\* its acquire, and a call gets past its acquire only by an acquire that
\* returned a success code.
C26_FailureLeavesStateUnchanged ==
    [][/\ (pc \in {"wait_slot", "acquire"} /\ steps' # steps /\ Failed(LastStep')) =>
             /\ pc' = UnwrapErr
             /\ UNCHANGED <<frame, frames, images_in_flight, fence>>
       /\ (pc' = UnwrapErr /\ pc \in {"wait_slot", "acquire"}) =>
             /\ Failed(LastStep')
             /\ UNCHANGED <<frame, frames, images_in_flight, fence>>
       /\ images_in_flight' # images_in_flight => pc = "image_wait"
       /\ (\E h \in DOMAIN fence : fence[h] /\ ~fence'[h]) => pc = "submit"
       /\ (pc' = "image_wait" /\ pc # "image_wait") =>
             /\ pc = "acquire"
             /\ LastStep'[1] = "acquire_next_image_khr"
             /\ IsSuccessCode(LastStep'[2])
       /\ (pc' = "submit" /\ pc # "submit") => pc = "image_wait"
      ]_vars

\* the acquire of a later call has failed while an image has a fence recorded
\* and the fence of a slot is unsignaled
C26_Witness ==
    /\ pc = UnwrapErr
    /\ frames >= 1
    /\ LastStep[1] = "acquire_next_image_khr"
    /\ Failed(LastStep)
    /\ \E k \in 1..Len(images_in_flight) : images_in_flight[k] # NullFence
    /\ \E h \in SlotFences : ~fence[h]

\* ------------------------------------------------ per-image resources
\* the submission queued by the render call that is now at its present
OwnSubmits == {k \in Submits : queue[k].call = frames}

\* C27: the image views, framebuffers, command buffers and images_in_flight
\* are as many as the swapchain images, which may be more than the count
\* asked for; command buffer k renders into framebuffer k, which wraps view k
\* of image k; the index an acquire returned is a valid index into each of
\* them, and the command buffer submitted for image i renders image i.
C27_PerImageResources ==
    LET n == Len(swapchain_images) IN
    /\ Len(swapchain_image_views) = n
    /\ Len(framebuffers) = n
    /\ Len(command_buffers) = n
    /\ Len(images_in_flight) = n
    /\ n >= config.min_image_count
    /\ \A k \in 1..n :
          /\ swapchain_image_views[k] = swapchain_images[k]
          /\ framebuffers[k] = swapchain_image_views[k]
          /\ command_buffers[k] = swapchain_images[k] - 1
          /\ command_buffers[k] = k - 1
    /\ pc \in {"image_wait", "submit", "present"} =>
          /\ image_index + 1 \in 1..n
          /\ CommandBuffers = image_index
    /\ pc = "present" =>
          \A k \in OwnSubmits : queue[k].image = image_index
    /\ \A k \in Submits, j \in Presents :
          queue[k].call = queue[j].call => queue[k].image = queue[j].image

\* the driver created more images than were asked for, and the command
\* buffer of the last of them has been submitted
C27_Witness ==
    /\ Len(swapchain_images) > config.min_image_count
    /\ pc = "present"
    /\ image_index + 1 = Len(swapchain_images)
    /\ OwnSubmits # {}

\* ---------------------------------------------------- events after close
\* C28: render is never invoked after destroy has run: no call of render is
\* in progress once destroy has run, and a call of render starts only while
\* no CloseRequested has been handled.
C28_NoRenderAfterDestroy ==
    /\ [](destroyed >= 1 => ~InRender)
    /\ [][(pc' = "wait_slot" /\ pc # "wait_slot") =>
              (~exiting /\ destroyed = 0 /\ pc = "idle")]_vars

\* destroy has run after some frames, the event loop still delivers events
\* and a redraw request would find a frame to render
C28_Witness ==
    /\ destroyed >= 1
    /\ pc = "idle"
    /\ frames >= 1
    /\ frames < MaxFrames

\* C29: destroy, and the device-idle wait before it, run at most once, however
\* many CloseRequested events are delivered before the event loop stops: no
\* object is destroyed twice and the device is not waited for after it was
\* destroyed.
C29_DestroyAtMostOnce ==
    /\ destroyed <= 1
    /\ \A k \in 1..Len(DestroyOrder) :
          Cardinality(DestroyedAt(DestroyOrder[k])) <= 1
    /\ \A j \in 1..Len(lifecycle) :
          lifecycle[j] = <<"device_wait_idle", "device">> =>
              \A d \in DestroyedAt("device") : j < d

\* ------------------------------------------- destroy order of the stages
\* the destroy calls of the three stage programs, in the order made
StageDestroyOrders == <<DestroyOrder09, DestroyOrder15, DestroyOrder>>

\* every object of the order is destroyed before the objects it was created
\* from
ReleasedBeforeParents(order) ==
    \A c, p \in 1..Len(order) :
        <<order[c], order[p]>> \in CreatedFrom => c < p

\* C30: in each of the stage programs 09, 15 and 20, destroy releases every
\* device-level object before the logical device, the logical device before
\* the instance, and the surface and the debug messenger before the
\* instance: nothing is destroyed after its parent.
C30_ChildrenBeforeParents ==
    destroyed >= 1 =>
        \A s \in 1..Len(StageDestroyOrders) :
            ReleasedBeforeParents(StageDestroyOrders[s])

====
